---- MODULE Spec2Model ----
(***************************************************************************)
(* Hands-Free Office (mac_server/server.py): a websocket listener that     *)
(* resolves spoken commands to intents, executes the intent's action plan  *)
(* through desktop automation, and keeps a "repeat last action" cache.     *)
(*                                                                         *)
(* Text is modelled as a sequence of one-character strings, so that        *)
(* lower(), strip(), startswith(), "in" and re.match are computed and not  *)
(* assumed.  Python dicts are functions whose DOMAIN is the set of keys.   *)
(* The desktop automation layer (osascript, pyautogui, pyperclip) is an    *)
(* opaque collaborator: every helper that drives it appends one descriptor *)
(* to the log of actuator invocations of the running call and returns.     *)
(***************************************************************************)
EXTENDS Integers, Sequences, FiniteSets, TLC

VARIABLES
    LAST_EXECUTED,  \* server.py:150  None or {"intent","plan","slots"}
    HISTORY,        \* server.py:151  deque(maxlen=10) of recorded actions
    pc,             \* per connection: where its ws_handler task stands
    pending,        \* per connection: the reply handed to websocket.send
    received,       \* per connection: messages taken from the socket
    sent,           \* per connection: replies flushed to the socket
    call,           \* trace of the most recent message handling
    origin          \* outcome of the execution that wrote LAST_EXECUTED, and
                    \* the number of messages received when it did

vars == <<LAST_EXECUTED, HISTORY, pc, pending, received, sent, call, origin>>

(***************************************************************************)
(* Python values                                                           *)
(***************************************************************************)
None == [none |-> TRUE]
EmptyDict == [k \in {} |-> None]

\* dict.get(key, default)
Get(d, k, default) == IF k \in DOMAIN d THEN d[k] ELSE default

\* {**d, key: value}
With(d, k, v) == [x \in DOMAIN d \cup {k} |-> IF x = k THEN v ELSE d[x]]

(***************************************************************************)
(* str methods on sequences of characters                                  *)
(***************************************************************************)
Upper == <<"A","B","C","D","E","F","G","H","I","J","K","L","M",
           "N","O","P","Q","R","S","T","U","V","W","X","Y","Z">>
Lower == <<"a","b","c","d","e","f","g","h","i","j","k","l","m",
           "n","o","p","q","r","s","t","u","v","w","x","y","z">>
Whitespace == {" ", "\t", "\n"}

LowerChar(ch) ==
    IF \E i \in 1..26 : Upper[i] = ch
    THEN Lower[CHOOSE i \in 1..26 : Upper[i] = ch]
    ELSE ch

\* str.lower()
StrLower(s) == [i \in 1..Len(s) |-> LowerChar(s[i])]

\* str.strip()
RECURSIVE LStrip(_)
LStrip(s) == IF s # <<>> /\ Head(s) \in Whitespace THEN LStrip(Tail(s)) ELSE s
RECURSIVE RStrip(_)
RStrip(s) ==
    IF s # <<>> /\ s[Len(s)] \in Whitespace
    THEN RStrip(SubSeq(s, 1, Len(s) - 1))
    ELSE s
StrStrip(s) == RStrip(LStrip(s))

\* str.startswith(prefix)
StartsWith(s, p) == Len(p) <= Len(s) /\ SubSeq(s, 1, Len(p)) = p

\* needle in haystack
Contains(hay, needle) ==
    \E i \in 0..(Len(hay) - Len(needle)) : SubSeq(hay, i + 1, i + Len(needle)) = needle

HasChar(s, ch) == \E i \in 1..Len(s) : s[i] = ch

(***************************************************************************)
(* Configuration.  intents.json, keymap.json and slots.json are loaded at  *)
(* import time (server.py:38-40) and are not part of the sources; the      *)
(* tables below are one configuration in the shape the code reads: an      *)
(* ordered intent table (patterns with named groups, example phrases), a   *)
(* keymap with one plan for every plan type _apply_plan dispatches on, and *)
(* the two alias tables.                                                   *)
(***************************************************************************)
\* A pattern is a sequence of parts matched left to right from position 0:
\* [lit |-> text] is literal text, [cap |-> name, cls, min] is the named group
\* (?P<name>X) with X = ".+" (cls "any", min 1), ".*" (cls "any", min 0) or
\* "\S+" (cls "nonspace", min 1); end = TRUE is a closing "$".
Lit(s) == [lit |-> s]
Cap(name, cls, min) == [cap |-> name, cls |-> cls, min |-> min]
Pat(parts, end) == [parts |-> parts, end |-> end]

s_go_to_      == <<"g","o"," ","t","o"," ">>
s_launch_     == <<"l","a","u","n","c","h"," ">>
s_type        == <<"t","y","p","e">>
s_mail_       == <<"m","a","i","l"," ">>
s__re_        == <<" ","r","e"," ">>
s_repeat      == <<"r","e","p","e","a","t">>
s_open_site   == <<"o","p","e","n"," ","s","i","t","e">>
s_open_app    == <<"o","p","e","n"," ","a","p","p">>
s_compose     == <<"o","p","e","n"," ","g","m","a","i","l"," ","a","n","d"," ",
                   "c","o","m","p","o","s","e">>
s_send_email  == <<"s","e","n","d"," ","e","m","a","i","l">>
s_next_slide  == <<"n","e","x","t"," ","s","l","i","d","e">>
s_scroll_down == <<"s","c","r","o","l","l"," ","d","o","w","n">>
s_again       == <<"a","g","a","i","n">>
s_start_show  == <<"s","t","a","r","t"," ","s","h","o","w">>
s_write_mail  == <<"w","r","i","t","e"," ","m","a","i","l">>
s_dictate     == <<"d","i","c","t","a","t","e">>
s_type_out_   == <<"t","y","p","e"," ","o","u","t"," ">>
s_wave        == <<"w","a","v","e">>
s_news        == <<"n","e","w","s">>
s_news_url    == <<"h","t","t","p","s",":","/","/","n",".","i","o">>
s_notes       == <<"n","o","t","e","s">>
s_Notes       == <<"N","o","t","e","s">>
s_http        == <<"h","t","t","p",":","/","/">>
s_https       == <<"h","t","t","p","s",":","/","/">>

\* INTENTS = _load_json("intents.json"): a dict, iterated in file order.
INTENTS == <<
    [name |-> "meta",       spec |-> [version |-> 1]],
    [name |-> "open_url",   spec |-> [patterns |-> <<Pat(<<Lit(s_go_to_), Cap("url", "any", 1)>>, TRUE)>>,
                                      examples |-> <<s_open_site>>]],
    [name |-> "open_app",   spec |-> [patterns |-> <<Pat(<<Lit(s_launch_), Cap("app", "any", 1)>>, FALSE)>>,
                                      examples |-> <<s_open_app>>]],
    [name |-> "type_text",  spec |-> [patterns |-> <<Pat(<<Lit(s_type), Cap("text", "any", 0)>>, TRUE)>>]],
    [name |-> "email_to",   spec |-> [patterns |-> <<Pat(<<Lit(s_mail_), Cap("to", "nonspace", 1),
                                                           Lit(s__re_), Cap("subject", "any", 0)>>, TRUE)>>,
                                      examples |-> <<s_write_mail>>]],
    [name |-> "compose_email", spec |-> [examples |-> <<s_compose>>]],
    [name |-> "send_email", spec |-> [examples |-> <<s_send_email>>]],
    [name |-> "next_slide", spec |-> [examples |-> <<s_next_slide>>]],
    [name |-> "scroll_down", spec |-> [examples |-> <<s_scroll_down>>]],
    [name |-> "start_presentation", spec |-> [examples |-> <<s_start_show>>]],
    [name |-> "repeat",     spec |-> [patterns |-> <<Pat(<<Lit(s_repeat)>>, FALSE)>>,
                                      examples |-> <<s_again>>]],
    [name |-> "dictate",    spec |-> [patterns |-> <<Pat(<<Lit(s_type_out_), Cap("text", "any", 1)>>, TRUE)>>,
                                      examples |-> <<s_dictate>>]],
    [name |-> "wave",       spec |-> [examples |-> <<s_wave>>]]
>>

\* KEYMAP = _load_json("keymap.json"): intent -> plan.  "dictate" has no plan;
\* "wave" has a plan whose type _apply_plan does not know.
KEYMAP == [
    open_url           |-> [type |-> "applescript_open_url"],
    open_app           |-> [type |-> "applescript_open_app"],
    type_text          |-> [type |-> "type"],
    email_to           |-> [type |-> "mailto_compose"],
    compose_email      |-> [type |-> "applescript_gmail_compose"],
    send_email         |-> [type |-> "hotkey", keys |-> <<"command", "enter">>],
    next_slide         |-> [type |-> "key", key |-> "right"],
    scroll_down        |-> [type |-> "scroll"],
    start_presentation |-> [type |-> "applescript_keynote_start"],
    repeat             |-> [type |-> "repeat_last"],
    wave               |-> [type |-> "macro"]
]

\* SLOTS = _load_json("slots.json")
SLOTS == [
    apps  |-> [a \in {s_notes} |-> s_Notes],
    sites |-> [a \in {s_news} |-> s_news_url]
]

(***************************************************************************)
(* Slot utilities                                                          *)
(***************************************************************************)
\* server.py:44-47
slot_app(name) ==
    LET n == StrStrip(StrLower(name))
    IN  Get(Get(SLOTS, "apps", EmptyDict), n, name)

\* server.py:49-60
slot_site(token) ==
    LET t == StrStrip(StrLower(token))
        site_map == Get(SLOTS, "sites", EmptyDict)
    IN  IF t \in DOMAIN site_map THEN site_map[t]
        ELSE IF t = <<>> THEN <<>>
        ELSE IF /\ ~(StartsWith(t, s_http) \/ StartsWith(t, s_https))
                /\ HasChar(t, ".")
                /\ ~HasChar(t, " ")
             THEN s_https \o t
        ELSE t

(***************************************************************************)
(* Actuator helpers.  Each returns the sequence of actuator invocations it *)
(* performs (the "UI action helpers" of server.py:75-147 and the inline    *)
(* scripts of _apply_plan).                                                *)
(***************************************************************************)
\* Variant: the script is run a second time (a retry).
run_applescript_Retries(script) ==
    <<[op |-> "run_applescript", script |-> script],
      [op |-> "run_applescript", script |-> script]>>

\* server.py:64-73; exceptions of the subprocess are caught inside.
run_applescript(script) == <<[op |-> "run_applescript", script |-> script]>>

\* server.py:77-90
open_gmail_compose == run_applescript([tell |-> "compose_tab"])

\* server.py:92-97: one paste of the text through the clipboard.
focused_typing(text) ==
    IF text = <<>> THEN <<>> ELSE <<[op |-> "paste_text", text |-> text]>>

\* server.py:116-137
open_presentation ==
    [status |-> "opened_presentation",
     acts   |-> run_applescript([tell |-> "keynote_start"])]

\* urllib.parse.quote: letters, digits and "_.-~/" are kept, every other
\* character becomes %XX.
QuoteChar(ch) ==
    IF ch = " " THEN <<"%","2","0">>
    ELSE IF ch = ":" THEN <<"%","3","A">>
    ELSE IF ch = "?" THEN <<"%","3","F">>
    ELSE IF ch = "&" THEN <<"%","2","6">>
    ELSE IF ch = "=" THEN <<"%","3","D">>
    ELSE <<ch>>
RECURSIVE quote(_)
quote(s) == IF s = <<>> THEN <<>> ELSE QuoteChar(Head(s)) \o quote(Tail(s))

s_mailto   == <<"m","a","i","l","t","o",":">>
s_subject  == <<"s","u","b","j","e","c","t","=">>
s_body     == <<"b","o","d","y","=">>

\* server.py:139-147
mailto_url(to_addr, subject, body) ==
    LET to == StrStrip(to_addr)
        qs == (IF subject # <<>> THEN <<s_subject \o quote(subject)>> ELSE <<>>)
              \o (IF body # <<>> THEN <<s_body \o quote(body)>> ELSE <<>>)
        tail == IF qs = <<>> THEN <<>>
                ELSE IF Len(qs) = 1 THEN <<"?">> \o qs[1]
                ELSE <<"?">> \o qs[1] \o <<"&">> \o qs[2]
    IN  s_mailto \o to \o tail

(***************************************************************************)
(* Repeat-last support and the plan executor                               *)
(***************************************************************************)
\* server.py:154-156
REPEAT_BLOCKLIST == {"send_email"}

\* server.py:151
HistoryMaxLen == 10

\* A call's outcome: the status it returns and the actuator invocations made.
Outcome(status, acts) == [status |-> status, acts |-> acts]

\* `x or ""` on a slot value
OrEmpty(v) == IF v = None THEN <<>> ELSE v

\* Variant: the empty check is missing.
EmptySlot_Never(v) == FALSE

\* `not url`, `not app` (server.py:181, 195): the resolved slot is empty.
EmptySlot(v) == v = <<>>

RECURSIVE apply_plan(_, _, _)

\* Variant: nothing recorded is reported as a blocked repeat.
repeat_last_action_WrongStatus(last) ==
    IF last = None THEN Outcome("repeat_blocked", <<>>)
    ELSE IF last["intent"] \in REPEAT_BLOCKLIST THEN Outcome("repeat_blocked", <<>>)
    ELSE apply_plan(last["plan"], last["slots"], last)

\* server.py:158-167.  last is the value of the global LAST_EXECUTED.
repeat_last_action(last) ==
    IF last = None THEN Outcome("no_last_action", <<>>)
    ELSE IF last["intent"] \in REPEAT_BLOCKLIST THEN Outcome("repeat_blocked", <<>>)
    ELSE apply_plan(last["plan"], last["slots"], last)

\* server.py:171-245.  Low-level execution; does not record the last action.
apply_plan(plan, slots, last) ==
    LET t == Get(plan, "type", "") IN   \* "" stands for a missing type tag
    IF t = "applescript_gmail_compose" THEN Outcome("opened_gmail", open_gmail_compose)
    ELSE IF t = "applescript_open_url" THEN
        LET url == slot_site(Get(slots, "url", <<>>)) IN
        IF EmptySlot(url) THEN Outcome("bad_url", <<>>)
        ELSE Outcome("opened_url", run_applescript([tell |-> "open_tab", url |-> url]))
    ELSE IF t = "applescript_open_app" THEN
        LET app == slot_app(Get(slots, "app", <<>>)) IN
        IF EmptySlot(app) THEN Outcome("bad_app", <<>>)
        ELSE Outcome("opened_app", run_applescript([tell |-> "activate", app |-> app]))
    ELSE IF t = "applescript_keynote_start" THEN open_presentation
    ELSE IF Get(plan, "intent", "") = "type_text" THEN
        LET txt == StrStrip(OrEmpty(Get(slots, "text", None))) IN
        IF txt # <<>> THEN Outcome("typed", focused_typing(txt))
        ELSE Outcome("typed_empty", <<>>)
    ELSE IF t = "hotkey" THEN Outcome("hotkey", <<[op |-> "hotkey", keys |-> plan["keys"]]>>)
    ELSE IF t = "key" THEN Outcome("key", <<[op |-> "press", key |-> plan["key"]]>>)
    ELSE IF t = "scroll" THEN
        Outcome("scroll", <<[op |-> "scroll", amount |-> Get(plan, "amount", -600)]>>)
    ELSE IF t = "repeat_last" THEN repeat_last_action(last)
    ELSE IF t = "mailto_compose" THEN
        LET to      == StrStrip(OrEmpty(Get(slots, "to", None)))
            subject == StrStrip(OrEmpty(Get(slots, "subject", None)))
            body    == StrStrip(OrEmpty(Get(slots, "body", None)))
        IN  IF to = <<>> THEN Outcome("opened_gmail", open_gmail_compose)
            ELSE Outcome("mailto_composed",
                         run_applescript([tell |-> "open_tab",
                                          url |-> mailto_url(to, subject, body)]))
    ELSE Outcome("noop", <<>>)

\* Variant: the deque has no maxlen.
DequeAppend_Unbounded(q, x) == Append(q, x)

\* deque(maxlen=10).append
DequeAppend(q, x) ==
    IF Len(q) >= HistoryMaxLen THEN Tail(q) \o <<x>> ELSE Append(q, x)

\* server.py:250-252: KEYMAP.get(intent); None and {} are both "not plan".
LookupPlan(intent) ==
    LET plan == Get(KEYMAP, intent, None)
    IN  IF plan = EmptyDict THEN None ELSE plan

\* server.py:255: {**plan, "intent": intent}
Annotate(plan, intent) == With(plan, "intent", intent)

\* Variant: the early return for 'repeat' is missing.
IsRepeatPlan_Never(plan) == FALSE

\* server.py:258: the 'repeat' itself is never recorded.
IsRepeatPlan(plan) == Get(plan, "type", "") = "repeat_last"

\* The statuses execute_intent does not record (server.py:264).
UnrecordedStatuses == {"noop", "unknown_intent", "bad_plan"}

\* Variant: the blocklist is not consulted.
ShouldRecord_IgnoresBlocklist(intent, status) == status \notin UnrecordedStatuses

\* server.py:264: the condition under which the execution is recorded.
ShouldRecord(intent, status) ==
    intent \notin REPEAT_BLOCKLIST /\ status \notin UnrecordedStatuses

\* Variant: the slots are not kept.
RecordOf_DropsSlots(intent, plan, slots) ==
    [intent |-> intent, plan |-> plan, slots |-> EmptyDict]

\* server.py:265: the record written to LAST_EXECUTED and appended to HISTORY.
RecordOf(intent, plan, slots) == [intent |-> intent, plan |-> plan, slots |-> slots]

\* server.py:247-268.  Returns the status, the actuator invocations, and the
\* values of the globals LAST_EXECUTED and HISTORY after the call.
\* server.py:258-268: r is what _apply_plan returned for the annotated plan.
RecordOutcome(intent, plan, slots, r, last, hist) ==
    IF IsRepeatPlan(plan) THEN
        [status |-> r.status, acts |-> r.acts, last |-> last, hist |-> hist]
    ELSE IF ShouldRecord(intent, r.status) THEN
        [status |-> r.status, acts |-> r.acts,
         last |-> RecordOf(intent, plan, slots),
         hist |-> DequeAppend(hist, RecordOf(intent, plan, slots))]
    ELSE
        [status |-> r.status, acts |-> r.acts, last |-> last, hist |-> hist]

\* server.py:255-261: the plan annotated with the intent is applied.
ExecutePlan(intent, plan, slots, last, hist) ==
    RecordOutcome(intent, plan, slots, apply_plan(plan, slots, last), last, hist)

execute_intent(intent, slots, last, hist) ==
    IF LookupPlan(intent) = None THEN
        [status |-> "unknown_intent", acts |-> <<>>, last |-> last, hist |-> hist]
    ELSE ExecutePlan(intent, Annotate(LookupPlan(intent), intent), slots, last, hist)

(***************************************************************************)
(* Intent routing                                                          *)
(***************************************************************************)
InClass(ch, cls) == cls = "any" \/ ch \notin Whitespace

\* Length of the longest prefix of s whose characters are all in cls.
RECURSIVE MaxRun(_, _)
MaxRun(s, cls) ==
    IF s # <<>> /\ InClass(Head(s), cls) THEN 1 + MaxRun(Tail(s), cls) ELSE 0

SetMax(S) == CHOOSE n \in S : \A m \in S : m <= n

\* Matching the parts against s from its first character, as the backtracking
\* matcher does: literals must follow each other, a group is greedy (the
\* longest run for which the rest still matches).  The result is the
\* groupdict of the match, or None.
RECURSIVE MatchParts(_, _, _)
MatchParts(parts, s, end) ==
    IF parts = <<>> THEN (IF end /\ s # <<>> THEN None ELSE EmptyDict)
    ELSE
        LET p == Head(parts) IN
        IF "lit" \in DOMAIN p THEN
            IF StartsWith(s, p.lit)
            THEN MatchParts(Tail(parts), SubSeq(s, Len(p.lit) + 1, Len(s)), end)
            ELSE None
        ELSE
            LET ok == {n \in p.min..MaxRun(s, p.cls) :
                          MatchParts(Tail(parts), SubSeq(s, n + 1, Len(s)), end) # None}
            IN  IF ok = {} THEN None
                ELSE LET n == SetMax(ok) IN
                     With(MatchParts(Tail(parts), SubSeq(s, n + 1, Len(s)), end),
                          p.cap, SubSeq(s, 1, n))

\* re.match(pat, raw): anchored at the start of raw only.
re_match(pat, raw) == MatchParts(pat.parts, raw, pat.end)

\* {k: v for k, v in m.groupdict().items() if v}
NonEmptyGroups(groups) == [k \in {x \in DOMAIN groups : groups[x] # <<>>} |-> groups[k]]

\* The (intent, pattern) pairs of stage 1 in iteration order, "meta" skipped
\* (server.py:314-317).
RECURSIVE PatternList(_)
PatternList(table) ==
    IF table = <<>> THEN <<>>
    ELSE LET e == Head(table)
             pats == Get(e.spec, "patterns", <<>>)
         IN  (IF e.name = "meta" THEN <<>>
              ELSE [i \in 1..Len(pats) |-> [intent |-> e.name, pat |-> pats[i]]])
             \o PatternList(Tail(table))

\* The (intent, example) pairs of stage 2 in iteration order, "meta" skipped
\* (server.py:325-328).
RECURSIVE ExampleList(_)
ExampleList(table) ==
    IF table = <<>> THEN <<>>
    ELSE LET e == Head(table)
             exs == Get(e.spec, "examples", <<>>)
         IN  (IF e.name = "meta" THEN <<>>
              ELSE [i \in 1..Len(exs) |-> [intent |-> e.name, ex |-> exs[i]]])
             \o ExampleList(Tail(table))

(***************************************************************************)
(* IntentRouter: TF-IDF over the example phrases, cosine similarity.       *)
(* Weights are fixed-point numbers in thousandths; ln is tabulated.        *)
(***************************************************************************)
Digits == {"0","1","2","3","4","5","6","7","8","9"}
IsWordChar(ch) ==
    \/ \E i \in 1..26 : Lower[i] = ch \/ Upper[i] = ch
    \/ ch \in Digits
    \/ ch = "_"

\* TfidfVectorizer's default token_pattern (?u)\b\w\w+\b: the maximal runs of
\* word characters that are at least two characters long.
RECURSIVE TokensFrom(_, _)
TokensFrom(s, cur) ==
    IF s = <<>> THEN (IF Len(cur) >= 2 THEN <<cur>> ELSE <<>>)
    ELSE IF IsWordChar(Head(s)) THEN TokensFrom(Tail(s), Append(cur, Head(s)))
    ELSE (IF Len(cur) >= 2 THEN <<cur>> ELSE <<>>) \o TokensFrom(Tail(s), <<>>)

\* ngram_range=(1, 2): every token, then every pair of adjacent tokens.
NGrams(tk) ==
    [i \in 1..Len(tk) |-> <<tk[i]>>] \o [i \in 1..(Len(tk) - 1) |-> <<tk[i], tk[i + 1]>>]

Terms(s) == NGrams(TokensFrom(StrLower(s), <<>>))

TermCount(terms, t) == Cardinality({i \in 1..Len(terms) : terms[i] = t})

\* server.py:276-283: examples (lower-cased) and their labels, "meta" skipped.
LowerExamples(el) == [i \in 1..Len(el) |-> StrLower(el[i].ex)]
LabelsOf(el) == [i \in 1..Len(el) |-> el[i].intent]
RouterExamples == LowerExamples(ExampleList(INTENTS))
RouterLabels   == LabelsOf(ExampleList(INTENTS))

\* self.X = vectorizer.fit_transform(self.examples): the terms of each example
\* and the vocabulary they span.
TermsOfAll(exs) == [i \in 1..Len(exs) |-> Terms(exs[i])]
DocTerms == TermsOfAll(RouterExamples)
TermSet(terms) == {terms[i] : i \in 1..Len(terms)}
VocabularyOf(docs) == UNION {TermSet(docs[i]) : i \in 1..Len(docs)}
Vocabulary == VocabularyOf(DocTerms)

\* 1000 * ln(m), rounded, for m = 1..20
LnMilli == <<0, 693, 1099, 1386, 1609, 1792, 1946, 2079, 2197, 2303,
             2398, 2485, 2565, 2639, 2708, 2773, 2833, 2890, 2944, 2996>>

DocFreq(docs, t) == Cardinality({i \in 1..Len(docs) : TermCount(docs[i], t) > 0})

\* smooth idf: ln((1 + n) / (1 + df)) + 1
IdfIn(docs, t) == LnMilli[1 + Len(docs)] - LnMilli[1 + DocFreq(docs, t)] + 1000
Idf(t) == IdfIn(DocTerms, t)

\* The vocabulary terms among the given terms, each once.
Known(terms) == TermSet(terms) \cap Vocabulary

\* The tf-idf weight of vocabulary term t in a text with the given terms.
Weight(terms, t) == TermCount(terms, t) * Idf(t)

RECURSIVE DotOver(_, _, _)
DotOver(S, a, b) ==
    IF S = {} THEN 0
    ELSE LET t == CHOOSE y \in S : TRUE
         IN  (Weight(a, t) * Weight(b, t)) \div 1000 + DotOver(S \ {t}, a, b)

\* Dot product of the tf-idf vectors of two texts, in thousandths.
Dot(a, b) == DotOver(Known(a) \cap Known(b), a, b)

\* Integer square root by bisection on lo..hi.
RECURSIVE ISqrtIn(_, _, _)
ISqrtIn(n, lo, hi) ==
    IF lo >= hi THEN lo
    ELSE LET mid == (lo + hi + 1) \div 2
         IN  IF mid * mid <= n THEN ISqrtIn(n, mid, hi) ELSE ISqrtIn(n, lo, mid - 1)
ISqrt(n) == ISqrtIn(n, 0, 40000)

\* Euclidean norm of the tf-idf vector, in thousandths.
Norm(a) == ISqrt(1000 * Dot(a, a))

\* cosine_similarity in thousandths; a zero vector has similarity 0.
CosineOf(dot, na, nb) ==
    IF na = 0 \/ nb = 0 THEN 0 ELSE (((1000 * dot) \div na) * 1000) \div nb

Cosine(a, b) == CosineOf(Dot(a, b), Norm(a), Norm(b))

\* server.py:306: threshold=0.42, in thousandths.
ThresholdMilli == 420

\* sims = cosine_similarity(qv, self.X)[0], from document i on.
RECURSIVE SimsFrom(_, _, _)
SimsFrom(qt, docs, i) ==
    IF i > Len(docs) THEN <<>> ELSE <<Cosine(qt, docs[i])>> \o SimsFrom(qt, docs, i + 1)

\* numpy argmax: the first index holding the maximum.
ArgMax(sims) ==
    CHOOSE i \in 1..Len(sims) :
        /\ \A j \in 1..Len(sims) : sims[j] <= sims[i]
        /\ \A j \in 1..(i - 1) : sims[j] < sims[i]

\* server.py:291-304.  Returns [label, score]; label "" stands for None.
\* Variant: a score equal to the threshold is rejected.
Best_Strict(sims, idx) ==
    IF sims[idx] > ThresholdMilli
    THEN [label |-> RouterLabels[idx], score |-> sims[idx]]
    ELSE [label |-> "", score |-> sims[idx]]

\* server.py:299-304: idx = sims.argmax() and the threshold test.
Best(sims, idx) ==
    IF sims[idx] >= ThresholdMilli
    THEN [label |-> RouterLabels[idx], score |-> sims[idx]]
    ELSE [label |-> "", score |-> sims[idx]]

BestOf(sims) == Best(sims, ArgMax(sims))

\* server.py:295-298: q is the lower-cased, stripped text.
InferQuery(q) ==
    IF q = <<>> THEN [label |-> "", score |-> 0]
    ELSE BestOf(SimsFrom(Terms(q), DocTerms, 1))

infer(text) ==
    IF RouterExamples = <<>> \/ text = <<>> THEN [label |-> "", score |-> 0]
    ELSE InferQuery(StrStrip(StrLower(text)))

(***************************************************************************)
(* JSON values of a decoded message                                        *)
(***************************************************************************)
\* Scalars and lists carry the same three fields: the kind t, the text s of a
\* string, and the number n (for a list, its length).
JStr(s)  == [t |-> "str",  s |-> s,    n |-> 0]
JNum(n)  == [t |-> "num",  s |-> <<>>, n |-> n]   \* n: the number times RollScale
JNull    == [t |-> "null", s |-> <<>>, n |-> 0]
JList(k) == [t |-> "list", s |-> <<>>, n |-> k]   \* a list of k elements
JObj(d)  == [t |-> "obj",  d |-> d]               \* d: key -> JSON value

\* Numbers are fixed-point with seven decimals: 0.25 is 2500000.
RollScale == 10000000

\* Python truthiness of a decoded value
Truthy(j) ==
    CASE j.t = "str"  -> j.s # <<>>
      [] j.t = "num"  -> j.n # 0
      [] j.t = "null" -> FALSE
      [] j.t = "list" -> j.n # 0
      [] j.t = "obj"  -> DOMAIN j.d # {}

s_command == <<"c","o","m","m","a","n","d">>
s_gesture == <<"g","e","s","t","u","r","e">>
s_tilt    == <<"t","i","l","t">>

\* j == "<text>" for a decoded value j
IsStr(j, s) == j.t = "str" /\ j.s = s

(***************************************************************************)
(* handle_command                                                          *)
(***************************************************************************)
\* The result of handling one message body: whether an exception escaped,
\* which stage resolved the command, the execute_intent call made (intent
\* "" when none was made), the status returned, the actuator invocations,
\* and the globals afterwards.
Handled(stage, intent, slots, r) ==
    [raised |-> FALSE, stage |-> stage, intent |-> intent, slots |-> slots,
     status |-> r.status, acts |-> r.acts, last |-> r.last, hist |-> r.hist]

Unhandled(status, last, hist) ==
    [raised |-> FALSE, stage |-> "none", intent |-> "", slots |-> EmptyDict,
     status |-> status, acts |-> <<>>, last |-> last, hist |-> hist]

Raised(exc, last, hist) ==
    [raised |-> TRUE, stage |-> "none", intent |-> "", slots |-> EmptyDict,
     status |-> exc, acts |-> <<>>, last |-> last, hist |-> hist]

\* Index of the first pattern of stage 1 that matches raw, 0 when none does.
FirstOf(hits) == IF hits = {} THEN 0 ELSE CHOOSE i \in hits : \A j \in hits : i <= j
PatternHits(pl, raw) == {i \in 1..Len(pl) : re_match(pl[i].pat, raw) # None}
FirstPattern(raw) == FirstOf(PatternHits(PatternList(INTENTS), raw))

\* Index of the first example of stage 2 contained in raw, 0 when none is.
\* Variant: the example must be the whole input.
ExampleHits_Exact(el, raw) == {i \in 1..Len(el) : raw = el[i].ex}

ExampleHits(el, raw) == {i \in 1..Len(el) : Contains(raw, el[i].ex)}
FirstExample(raw) == FirstOf(ExampleHits(ExampleList(INTENTS), raw))

\* Stages 1-3 of handle_command (server.py:313-338): the stage that resolves
\* raw, the intent and the slots; stage "none" when nothing matches.
\* Variant: the literal examples are scanned before the patterns.
Resolved_ExamplesFirst(raw, pl, el, p, e, guess) ==
    IF e # 0 THEN
        [stage |-> "keyword", intent |-> el[e].intent, slots |-> EmptyDict]
    ELSE IF p # 0 THEN
        [stage |-> "regex", intent |-> pl[p].intent,
         slots |-> NonEmptyGroups(re_match(pl[p].pat, raw))]
    ELSE IF guess.label # "" THEN
        [stage |-> "tfidf", intent |-> guess.label, slots |-> EmptyDict]
    ELSE [stage |-> "none", intent |-> "", slots |-> EmptyDict]

\* p and e are the first matching pattern and example (0 for none), guess
\* is what ROUTER.infer returns.
Resolved(raw, pl, el, p, e, guess) ==
    IF p # 0 THEN
        [stage |-> "regex", intent |-> pl[p].intent,
         slots |-> NonEmptyGroups(re_match(pl[p].pat, raw))]
    ELSE IF e # 0 THEN
        [stage |-> "keyword", intent |-> el[e].intent, slots |-> EmptyDict]
    ELSE IF guess.label # "" THEN
        [stage |-> "tfidf", intent |-> guess.label, slots |-> EmptyDict]
    ELSE [stage |-> "none", intent |-> "", slots |-> EmptyDict]

Resolve(raw) ==
    Resolved(raw, PatternList(INTENTS), ExampleList(INTENTS),
             FirstPattern(raw), FirstExample(raw), infer(raw))

\* The phrases clients send as the "text" of a command: a regex match with a
\* slot, a regex match of a prefix, literal example phrases, fuzzy matches above
\* and below the threshold, and phrases that resolve to nothing.
t_go_nio      == <<"g","o"," ","t","o"," ","n",".","i","o">>
t_go_news     == <<"G","o"," ","t","o"," ","N","e","w","s">>
t_launch      == <<"l","a","u","n","c","h"," ","n","o","t","e","s">>
t_type_hi     == <<"t","y","p","e"," ","h","i">>
t_mail        == <<"m","a","i","l"," ","b","o"," ","r","e"," ","h","i">>
t_next_padded == <<" ","N","e","x","t"," ","s","l","i","d","e"," ">>
t_repeat_that == <<"r","e","p","e","a","t"," ","t","h","a","t">>
t_slide_next  == <<"s","l","i","d","e"," ","n","e","x","t">>
t_gmail       == <<"g","m","a","i","l">>
t_xyzzy       == <<"x","y","z","z","y">>
t_type_out    == <<"t","y","p","e"," ","o","u","t"," ","a","g","a","i","n">>
t_app_again   == <<"o","p","e","n"," ","a","p","p"," ","a","g","a","i","n">>
s_ping        == <<"p","i","n","g">>
s_shake       == <<"s","h","a","k","e">>
s_half        == <<"0",".","5">>
s_abc         == <<"a","b","c">>

CommandTexts == {
    t_go_nio, t_go_news, s_open_site, t_launch, s_open_app, t_type_hi, s_type,
    t_mail, s_write_mail, s_compose, s_send_email, t_next_padded, s_scroll_down,
    s_start_show, s_again, t_repeat_that, s_dictate, s_wave,
    t_slide_next, t_gmail, t_xyzzy, <<>> }

\* Phrases on which the stages of the resolution overlap: two patterns match,
\* a pattern matches and an example is contained, two examples are contained.
OverlapTexts == {t_type_out, t_app_again}


\* raw = (cmd or "").strip().lower() and its resolution, computed once for
\* every phrase.
ResolveTable == [t \in CommandTexts \cup OverlapTexts |-> Resolve(StrLower(StrStrip(t)))]

\* server.py:309-343.  cmd is the decoded "text" value of the message.
Dispatch(res, last, hist) ==
    IF res.stage = "none" THEN Unhandled("unknown", last, hist)
    ELSE Handled(res.stage, res.intent, res.slots,
                 execute_intent(res.intent, res.slots, last, hist))

handle_command(cmd, last, hist) ==
    IF Truthy(cmd) /\ cmd.t # "str" THEN Raised("AttributeError", last, hist)
    ELSE Dispatch(ResolveTable[IF Truthy(cmd) THEN cmd.s ELSE <<>>], last, hist)

(***************************************************************************)
(* handle_gesture                                                          *)
(***************************************************************************)
DigitValue(ch) == CHOOSE n \in 0..9 : <<"0","1","2","3","4","5","6","7","8","9">>[n + 1] = ch

RECURSIVE Pow10(_)
Pow10(n) == IF n = 0 THEN 1 ELSE 10 * Pow10(n - 1)

RECURSIVE DigitsValue(_)
DigitsValue(ds) ==
    IF ds = <<>> THEN 0 ELSE 10 * DigitsValue(SubSeq(ds, 1, Len(ds) - 1)) + DigitValue(ds[Len(ds)])

AllDigits(s) == \A i \in 1..Len(s) : s[i] \in Digits

\* float(<str>) for plain decimal text: optional sign, digits, optional
\* fraction of at most seven digits.  [ok, v]; ok = FALSE is a ValueError.
ParseFloat(s0) ==
    LET s    == StrStrip(s0)
        neg  == s # <<>> /\ Head(s) = "-"
        body == IF s # <<>> /\ Head(s) \in {"-", "+"} THEN Tail(s) ELSE s
        dots == {i \in 1..Len(body) : body[i] = "."}
        ip   == IF dots = {} THEN body ELSE SubSeq(body, 1, (CHOOSE i \in dots : TRUE) - 1)
        fp   == IF dots = {} THEN <<>>
                ELSE SubSeq(body, (CHOOSE i \in dots : TRUE) + 1, Len(body))
        ok   == /\ Cardinality(dots) <= 1
                /\ AllDigits(ip) /\ AllDigits(fp)
                /\ Len(ip) + Len(fp) >= 1
                /\ Len(ip) <= 2 /\ Len(fp) <= 7
        mag  == DigitsValue(ip) * RollScale + DigitsValue(fp) * Pow10(7 - Len(fp))
    IN  IF ok THEN [ok |-> TRUE, v |-> IF neg THEN -mag ELSE mag]
        ELSE [ok |-> FALSE, v |-> 0]

\* float(x) of a decoded value: [ok, v]; ok = FALSE is a TypeError or ValueError.
ToFloat(j) ==
    CASE j.t = "num"  -> [ok |-> TRUE, v |-> j.n]
      [] j.t = "str"  -> ParseFloat(j.s)
      [] OTHER        -> [ok |-> FALSE, v |-> 0]

\* server.py:350, 353: the thresholds 0.25 and -0.25
RollThreshold == 2500000

\* server.py:103-108
next_slide == <<[op |-> "press", key |-> "right"]>>
prev_slide == <<[op |-> "press", key |-> "left"]>>

\* Variant: a gesture that actuates goes through the recording path of the
\* plan executor, as the command "next slide" does.
GestureResult_Records(status, acts, last, hist) ==
    [raised |-> FALSE, stage |-> "none", intent |-> "", slots |-> EmptyDict,
     status |-> status, acts |-> acts,
     last |-> IF acts = <<>> THEN last
              ELSE RecordOf("next_slide", Annotate(KEYMAP["next_slide"], "next_slide"), EmptyDict),
     hist |-> IF acts = <<>> THEN hist
              ELSE DequeAppend(hist, RecordOf("next_slide",
                                              Annotate(KEYMAP["next_slide"], "next_slide"),
                                              EmptyDict))]

GestureResult(status, acts, last, hist) ==
    [raised |-> FALSE, stage |-> "none", intent |-> "", slots |-> EmptyDict,
     status |-> status, acts |-> acts, last |-> last, hist |-> hist]

\* server.py:345-356.  payload is the decoded message (a dict).
handle_gesture(payload, last, hist) ==
    LET kind == Get(payload, "kind", JStr(<<>>)) IN
    IF IsStr(kind, s_tilt) THEN
        LET roll == ToFloat(Get(payload, "roll", JNum(0))) IN
        IF ~roll.ok THEN Raised("ValueError", last, hist)
        ELSE IF roll.v > RollThreshold THEN GestureResult("gesture_next_slide", next_slide, last, hist)
        ELSE IF roll.v < -RollThreshold THEN GestureResult("gesture_prev_slide", prev_slide, last, hist)
        ELSE GestureResult("gesture_ignored", <<>>, last, hist)
    ELSE GestureResult("gesture_ignored", <<>>, last, hist)

(***************************************************************************)
(* ws_handler: one message                                                 *)
(***************************************************************************)
\* A frame is either text that json.loads rejects, [body |-> "malformed"],
\* or the value it decodes to, [body |-> "json", data |-> value].
Malformed  == [body |-> "malformed"]
Decoded(j) == [body |-> "json", data |-> j]

ReplyResult(status) == [ok |-> TRUE, result |-> status]
ReplyError(error)   == [ok |-> FALSE, error |-> error]

\* server.py:361-377, the body of the loop for one message.  kind names the
\* branch taken; reply is the payload passed to websocket.send, None when an
\* exception left the handler before any send.
Replied(kind, h) ==
    IF h.raised THEN [kind |-> "raised", reply |-> None, h |-> h]
    ELSE [kind |-> kind, reply |-> ReplyResult(h.status), h |-> h]

OnMessage(message, last, hist) ==
    IF message.body = "malformed" THEN
        [kind |-> "bad_json", reply |-> ReplyError("bad_json"),
         h |-> Unhandled("bad_json", last, hist)]
    ELSE
        LET data == message.data IN
        IF data.t # "obj" THEN
            \* data.get on a list, number, string or null: AttributeError
            [kind |-> "raised", reply |-> None, h |-> Raised("AttributeError", last, hist)]
        ELSE
            LET mtype == Get(data.d, "type", JStr(<<>>)) IN
            IF IsStr(mtype, s_command) THEN
                Replied("command", handle_command(Get(data.d, "text", JStr(<<>>)), last, hist))
            ELSE IF IsStr(mtype, s_gesture) THEN
                Replied("gesture", handle_gesture(data.d, last, hist))
            ELSE
                [kind |-> "unknown_type", reply |-> ReplyError("unknown_type"),
                 h |-> Unhandled("unknown_type", last, hist)]

(***************************************************************************)
(* Inputs: the frames a client may send                                    *)
(***************************************************************************)
Command(text) == Decoded(JObj([type |-> JStr(s_command), text |-> JStr(text)]))
Tilt(roll)    == Decoded(JObj([type |-> JStr(s_gesture), kind |-> JStr(s_tilt), roll |-> roll]))

CommandMessages ==
    {Command(t) : t \in CommandTexts}
    \cup { Decoded(JObj([type |-> JStr(s_command)])),                     \* no "text"
           Decoded(JObj([type |-> JStr(s_command), text |-> JNum(5 * RollScale)])) }

GestureMessages ==
    { Tilt(JNum(5000000)), Tilt(JNum(-3000000)), Tilt(JNum(2500000)), Tilt(JNum(2500001)),
      Tilt(JNum(-2500000)), Tilt(JStr(s_half)), Tilt(JStr(s_abc)), Tilt(JNull),
      Decoded(JObj([type |-> JStr(s_gesture), kind |-> JStr(s_tilt)])),   \* no "roll"
      Decoded(JObj([type |-> JStr(s_gesture), kind |-> JStr(s_shake), roll |-> JNum(5000000)])) }

OtherMessages ==
    { Malformed,
      Decoded(JList(1)), Decoded(JNull), Decoded(JStr(s_command)),
      Decoded(JObj([type |-> JStr(s_ping)])),
      Decoded(JObj([text |-> JStr(s_again)])) }                           \* no "type"

Messages == CommandMessages \cup GestureMessages \cup OtherMessages

(***************************************************************************)
(* The server                                                              *)
(***************************************************************************)
Conns == {"c1", "c2"}

\* Bound on the number of messages handled in a run.
MaxMsgs == 3

RECURSIVE SumReceived(_, _)
SumReceived(f, S) ==
    IF S = {} THEN 0
    ELSE LET c == CHOOSE x \in S : TRUE IN f[c] + SumReceived(f, S \ {c})

NoCall ==
    [conn |-> "", message |-> Malformed, kind |-> "none", raised |-> FALSE, stage |-> "none",
     intent |-> "", slots |-> EmptyDict, status |-> "", acts |-> <<>>, changed |-> FALSE,
     after |-> "other"]

\* Variant: a blocking call does not hold the event loop (it runs in a thread).
LoopFree_Threaded == TRUE

\* server.py:64-73, 360-383: every handler runs on the one event loop thread,
\* and subprocess.run blocks that thread until osascript exits.  The loop can
\* run a handler, accept a connection or complete a send only while no
\* handler is inside such a call.
LoopFree == \A c \in Conns : pc[c] # "hung"

\* What the most recent message was, as seen by the message that follows it:
\* the execution of a blocklisted intent, a gesture that actuated, or other.
Preceding ==
    IF call.kind = "command" /\ call.intent \in REPEAT_BLOCKLIST THEN "blocklisted"
    ELSE IF call.kind = "gesture" /\ call.acts # <<>> THEN "gesture"
    ELSE "other"

Init ==
    /\ LAST_EXECUTED = None
    /\ HISTORY = <<>>
    /\ pc = [c \in Conns |-> "idle"]
    /\ pending = [c \in Conns |-> None]
    /\ received = [c \in Conns |-> 0]
    /\ sent = [c \in Conns |-> 0]
    /\ call = NoCall
    /\ origin = None

\* server.py:381: websockets.serve starts a ws_handler task for a new connection,
\* which suspends in "async for" until a message arrives.
Connect(c) ==
    /\ LoopFree
    /\ pc[c] = "idle"
    /\ pc' = [pc EXCEPT ![c] = "recv"]
    /\ UNCHANGED <<LAST_EXECUTED, HISTORY, pending, received, sent, call, origin>>

\* server.py:361-377: the handler of connection c takes the next message and
\* runs, without suspending, up to the await of websocket.send; an exception
\* that escapes ends the handler, and with it the connection.
Changed(h) == h.last # LAST_EXECUTED \/ h.hist # HISTORY

\* The state after the loop body ran on message with result r.
Handle(c, message, r) ==
    /\ LAST_EXECUTED' = r.h.last
    /\ HISTORY' = r.h.hist
    /\ received' = [received EXCEPT ![c] = @ + 1]
    /\ pc' = [pc EXCEPT ![c] = IF r.kind = "raised" THEN "failed" ELSE "send"]
    /\ pending' = [pending EXCEPT ![c] = r.reply]
    /\ call' = [conn |-> c, message |-> message, kind |-> r.kind, raised |-> r.h.raised,
                stage |-> r.h.stage, intent |-> r.h.intent, slots |-> r.h.slots,
                status |-> r.h.status, acts |-> r.h.acts, changed |-> Changed(r.h),
                after |-> Preceding]
    /\ origin' = IF Changed(r.h)
                 THEN [status |-> r.h.status, acts |-> r.h.acts,
                       at |-> SumReceived(received, Conns) + 1]
                 ELSE origin

Receive(c, message, limit) ==
    /\ LoopFree
    /\ pc[c] = "recv"
    /\ SumReceived(received, Conns) < limit
    /\ Handle(c, message, OnMessage(message, LAST_EXECUTED, HISTORY))
    /\ UNCHANGED sent

\* The handling of the message runs an AppleScript.
RunsAppleScript(r) == \E i \in 1..Len(r.h.acts) : r.h.acts[i].op = "run_applescript"

\* server.py:71: subprocess.run has no timeout.  The handler of connection c
\* takes a message whose plan runs an AppleScript and osascript never exits:
\* the handler stays inside _apply_plan, before anything is recorded or sent.
Hang(c, message, limit) ==
    /\ LoopFree
    /\ pc[c] = "recv"
    /\ SumReceived(received, Conns) < limit
    /\ RunsAppleScript(OnMessage(message, LAST_EXECUTED, HISTORY))
    /\ received' = [received EXCEPT ![c] = @ + 1]
    /\ pc' = [pc EXCEPT ![c] = "hung"]
    /\ call' = [NoCall EXCEPT !.conn = c, !.message = message, !.kind = "hung",
                              !.after = Preceding]
    /\ UNCHANGED <<LAST_EXECUTED, HISTORY, pending, sent, origin>>

\* websocket.send completes: the reply is on the wire and the handler is back
\* in "async for".
Send(c) ==
    /\ LoopFree
    /\ pc[c] = "send"
    /\ sent' = [sent EXCEPT ![c] = @ + 1]
    /\ pending' = [pending EXCEPT ![c] = None]
    /\ pc' = [pc EXCEPT ![c] = "recv"]
    /\ UNCHANGED <<LAST_EXECUTED, HISTORY, received, call, origin>>

\* The client closes the connection: "async for" ends and ws_handler returns.
Disconnect(c) ==
    /\ LoopFree
    /\ pc[c] = "recv"
    /\ pc' = [pc EXCEPT ![c] = "done"]
    /\ UNCHANGED <<LAST_EXECUTED, HISTORY, pending, received, sent, call, origin>>

\* The steps of the handlers of the connections in C, fed messages from M,
\* at most limit of them in a run.
ServerNext(C, M, limit) ==
    \E c \in C :
        \/ Connect(c)
        \/ \E m \in M : Receive(c, m, limit)
        \/ \E m \in M : Hang(c, m, limit)
        \/ Send(c)
        \/ Disconnect(c)

\* One client, sending any of the messages.
Next == ServerNext({"c1"}, Messages, MaxMsgs)

Spec == Init /\ [][Next]_vars

\* Every connection, each client sending messages of every branch of the loop.
CoreMessages ==
    { Command(t_go_nio), Command(t_type_hi), Command(s_send_email), Command(s_again),
      Command(t_xyzzy),
      Tilt(JNum(5000000)), Tilt(JStr(s_abc)),
      Malformed, Decoded(JList(1)), Decoded(JObj([type |-> JStr(s_ping)])) }

NextConc == ServerNext(Conns, CoreMessages, MaxMsgs)

SpecConc == Init /\ [][NextConc]_vars

\* Bound on the number of messages in a run that fills HISTORY.
HistMsgs == 12

\* One client, sending two commands that are recorded and one that is not.
HistMessages == {Command(s_scroll_down), Command(s_start_show), Command(t_xyzzy)}

NextHist == ServerNext({"c1"}, HistMessages, HistMsgs)

SpecHist == Init /\ [][NextHist]_vars

\* Bound on the number of commands in a run of the resolution.
ResolveMsgs == 2

\* One client, sending every command phrase, those with overlapping stages
\* included.
ResolveMessages == CommandMessages \cup {Command(t) : t \in OverlapTexts}

NextResolve == ServerNext({"c1"}, ResolveMessages, ResolveMsgs)

SpecResolve == Init /\ [][NextResolve]_vars

(***************************************************************************)
(* Properties.  call describes the most recent message handling: the       *)
(* execute_intent call it made (intent, slots), the status returned, the   *)
(* actuator invocations, and whether LAST_EXECUTED or HISTORY changed.     *)
(***************************************************************************)
\* The most recent message was a command that led to an execute_intent call.
Executed == call.kind = "command" /\ call.intent # ""

HasPlan(intent) == intent \in DOMAIN KEYMAP /\ KEYMAP[intent] # EmptyDict
PlanType(intent) == IF HasPlan(intent) THEN Get(KEYMAP[intent], "type", "") ELSE ""

\* The call was execute_intent on an intent whose plan type is repeat_last.
RepeatCall == Executed /\ PlanType(call.intent) = "repeat_last"

\* The call was execute_intent on an intent with a plan of any other type.
PlainCall == Executed /\ HasPlan(call.intent) /\ PlanType(call.intent) # "repeat_last"

SuccessStatuses ==
    {"opened_gmail", "opened_url", "opened_app", "opened_presentation", "typed",
     "hotkey", "key", "scroll", "mailto_composed"}

\* C1: after execute_intent(intent, slots) on a plan other than repeat_last, a
\* non-blocklisted intent with a status other than "noop" leaves LAST_EXECUTED
\* equal to {intent, the plan annotated with the intent, slots}; a blocklisted
\* intent leaves LAST_EXECUTED and HISTORY as they were, whatever the status.
C1_RecordsExactlyTheCall ==
    PlainCall =>
        /\ (call.intent \notin REPEAT_BLOCKLIST /\ call.status # "noop") =>
               LAST_EXECUTED = [intent |-> call.intent,
                                plan   |-> With(KEYMAP[call.intent], "intent", call.intent),
                                slots  |-> call.slots]
        /\ call.intent \in REPEAT_BLOCKLIST => ~call.changed

\* A blocklisted intent was executed successfully while an earlier action
\* with slots was on record.
C1_Witness ==
    /\ PlainCall
    /\ call.intent \in REPEAT_BLOCKLIST
    /\ call.status \in SuccessStatuses
    /\ LAST_EXECUTED # None
    /\ LAST_EXECUTED.slots # EmptyDict

\* C2: an execute_intent call that returns noop, unknown, or a bad-input
\* status (bad_url, bad_app, empty text) leaves LAST_EXECUTED and HISTORY as
\* they were.
C2_BadStatusNotRecorded ==
    (Executed /\ call.status \in {"noop", "unknown", "unknown_intent",
                                  "bad_url", "bad_app", "typed_empty"})
        => ~call.changed

\* C3: execute_intent on a repeat_last plan (and the replay it runs) never
\* changes LAST_EXECUTED or HISTORY, and no recorded plan has type repeat_last.
C3_RepeatIsNeverRecorded ==
    /\ RepeatCall => ~call.changed
    /\ LAST_EXECUTED # None => Get(LAST_EXECUTED.plan, "type", "") # "repeat_last"
    /\ \A i \in 1..Len(HISTORY) : Get(HISTORY[i].plan, "type", "") # "repeat_last"

\* A repeat replayed a recorded action, as the third message of the run.
C3_Witness ==
    /\ RepeatCall
    /\ LAST_EXECUTED # None
    /\ call.acts # <<>>
    /\ Len(HISTORY) = 1
    /\ received[call.conn] = 3

\* C4: a repeat on a recorded, non-blocklisted action returns the status and
\* performs the actuator invocations of the execution that recorded it.
C4_ReplayEqualsOrigin ==
    (RepeatCall /\ LAST_EXECUTED # None /\ LAST_EXECUTED.intent \notin REPEAT_BLOCKLIST)
        => /\ call.status = origin.status
           /\ call.acts = origin.acts

\* A repeat replayed an action recorded with slots, with another message
\* handled between the recording and the repeat.
C4_Witness ==
    /\ RepeatCall
    /\ LAST_EXECUTED # None
    /\ LAST_EXECUTED.intent = "type_text"
    /\ LAST_EXECUTED.slots # EmptyDict
    /\ call.status = "typed"
    /\ call.acts # <<>>
    /\ SumReceived(received, Conns) >= origin.at + 2

\* C5: with nothing recorded, a repeat returns "no_last_action", makes no
\* actuator invocation and leaves LAST_EXECUTED and HISTORY as they were.
C5_ReplayWithNothingRecorded ==
    (RepeatCall /\ LAST_EXECUTED = None)
        => /\ call.status = "no_last_action"
           /\ call.acts = <<>>
           /\ ~call.changed

\* A repeat arrived after two messages that recorded nothing.
C5_Witness ==
    /\ RepeatCall
    /\ LAST_EXECUTED = None
    /\ HISTORY = <<>>
    /\ received[call.conn] = 3

RequiredSlotEmpty ==
    \/ PlanType(call.intent) = "applescript_open_url" /\ Get(call.slots, "url", <<>>) = <<>>
    \/ PlanType(call.intent) = "applescript_open_app" /\ Get(call.slots, "app", <<>>) = <<>>
    \/ call.intent = "type_text" /\ Get(call.slots, "text", <<>>) = <<>>

\* C7: execute_intent on an intent without a plan returns "unknown_intent", on
\* a plan whose required slot (url, app, text) is empty a bad-input status, and
\* in both cases makes no actuator invocation.
C7_BadInputHasNoSideEffect ==
    /\ (Executed /\ ~HasPlan(call.intent))
           => (call.status = "unknown_intent" /\ call.acts = <<>>)
    /\ (PlainCall /\ RequiredSlotEmpty)
           => (call.status \in {"bad_url", "bad_app", "typed_empty"} /\ call.acts = <<>>)

\* An open-url plan was executed without a url.
C7_Witness ==
    /\ PlainCall
    /\ PlanType(call.intent) = "applescript_open_url"
    /\ call.slots = EmptyDict
    /\ call.status = "bad_url"

\* C8: an execute_intent call makes at most one actuator invocation (also when
\* the plan is repeat_last and the dispatch goes through replay), and exactly
\* one when it returns a success status.
C8_OneActuatorInvocation ==
    Executed =>
        /\ Len(call.acts) <= 1
        /\ call.status \in SuccessStatuses => Len(call.acts) = 1

\* A repeat replayed an AppleScript action.
C8_Witness ==
    /\ RepeatCall
    /\ call.status = "opened_url"
    /\ Len(call.acts) = 1

\* C9: no message ends the handler of its connection: after every message
\* the handler goes on to the next one.
C9_NoMessageEndsTheHandler == \A c \in Conns : pc[c] # "failed"

\* The reply the protocol names for a message: bad_json for a body that does
\* not parse, result:<status> for a command or gesture, unknown_type otherwise.
IsTyped(message, type) ==
    /\ message.body = "json"
    /\ message.data.t = "obj"
    /\ IsStr(Get(message.data.d, "type", JStr(<<>>)), type)

ExpectedReply(message, status) ==
    IF message.body = "malformed" THEN ReplyError("bad_json")
    ELSE IF IsTyped(message, s_command) \/ IsTyped(message, s_gesture) THEN ReplyResult(status)
    ELSE ReplyError("unknown_type")

\* C10: every message received on a connection gets exactly one reply before
\* the next message of the connection is handled, and the reply is the one the
\* protocol names for the message.
C10_OneReplyPerMessage ==
    \A c \in Conns :
        /\ pc[c] = "send" => /\ received[c] = sent[c] + 1
                             /\ pending[c] # None
                             /\ call.conn = c => pending[c] = ExpectedReply(call.message, call.status)
        /\ pc[c] \notin {"send", "hung"} => received[c] = sent[c]

\* The handlers that are inside a blocking actuator call.
Hung == {c \in Conns : pc[c] = "hung"}

\* C11: while the handler of one connection hangs in an actuation, only that
\* connection is affected: a new connection can still be accepted, and a
\* connection with a reply to send or a message to read can still be served.
C11_HangBlocksOnlyItsHandler ==
    \A c \in Hung : \A d \in Conns \ {c} :
        /\ pc[d] = "idle" => ENABLED Connect(d)
        /\ pc[d] = "send" => ENABLED Send(d)
        /\ pc[d] = "recv" => ENABLED Disconnect(d)

\* The record execute_intent writes for the call described by call.
CallRecord == RecordOf(call.intent, Annotate(KEYMAP[call.intent], call.intent), call.slots)

\* C12: with several connections, the handling of a message is one step for
\* every other handler: at most one handler is inside an actuation, and
\* LAST_EXECUTED and HISTORY change only by a recording execution, which
\* leaves LAST_EXECUTED equal to its own record and HISTORY equal to the
\* previous HISTORY with that record appended.
C12_HandlingIsAtomic ==
    [][ /\ Cardinality(Hung') <= 1
        /\ (LAST_EXECUTED' # LAST_EXECUTED \/ HISTORY' # HISTORY) =>
               /\ received' # received
               /\ call'.changed
               /\ LAST_EXECUTED' = CallRecord'
               /\ HISTORY' = DequeAppend(HISTORY, CallRecord') ]_vars

\* Two connections have each had a message recorded and both await the
\* completion of their send.
C12_Witness ==
    /\ \A c \in Conns : pc[c] = "send"
    /\ Len(HISTORY) = 2
    /\ HISTORY[1].intent # HISTORY[2].intent
    /\ call.changed
    /\ LAST_EXECUTED = HISTORY[2]

(***************************************************************************)
(* Resolution.  The properties below state, for the command of the most    *)
(* recent message, which stage must have resolved it, from the patterns    *)
(* that match its normalised text and the examples the text contains.      *)
(***************************************************************************)
\* raw = (cmd or "").strip().lower() of the command handled last.
RawOf(cmd) == StrLower(StrStrip(IF Truthy(cmd) THEN cmd.s ELSE <<>>))
CallRaw == RawOf(Get(call.message.data.d, "text", JStr(<<>>)))

Patterns == PatternList(INTENTS)
Examples == ExampleList(INTENTS)
Least(S) == CHOOSE i \in S : \A j \in S : i <= j

\* The patterns re.match accepts on raw, and those that match all of raw.
Matching(raw) == {i \in 1..Len(Patterns) : re_match(Patterns[i].pat, raw) # None}
MatchingInFull(raw) ==
    {i \in 1..Len(Patterns) : MatchParts(Patterns[i].pat.parts, raw, TRUE) # None}

\* The examples that are a substring of raw.
Contained(raw) ==
    {i \in 1..Len(Examples) :
        \E k \in 0..(Len(raw) - Len(Examples[i].ex)) :
            SubSeq(raw, k + 1, k + Len(Examples[i].ex)) = Examples[i].ex}

\* The similarity of every normalised phrase to every example, in thousandths.
NormTexts == {StrLower(StrStrip(t)) : t \in CommandTexts \cup OverlapTexts}
SimsTable == [t \in NormTexts |-> SimsFrom(Terms(t), DocTerms, 1)]
TopScore(sims) == Least({x \in 0..1000 : \A i \in 1..Len(sims) : sims[i] <= x})
TopIndex(sims) == Least({i \in 1..Len(sims) : sims[i] = TopScore(sims)})

CommandCall == call.kind = "command"
NothingExecuted ==
    /\ call.stage = "none" /\ call.intent = "" /\ call.status = "unknown"
    /\ call.acts = <<>> /\ ~call.changed

Pipeline(P, E, fuzzy) ==
    /\ P # {} => (call.stage = "regex" /\ call.intent = Patterns[Least(P)].intent)
    /\ (P = {} /\ E # {}) => (call.stage = "keyword" /\ call.intent = Examples[Least(E)].intent)
    /\ (P = {} /\ E = {}) => (call.stage \in {"tfidf", "none"})
    /\ (call.stage = "tfidf") => (call.intent \in {RouterLabels[i] : i \in 1..Len(RouterLabels)})
    /\ (call.stage = "none") => NothingExecuted
    /\ (call.stage # "none") => (call.intent # "" /\ Len(call.acts) <= 1)

\* C13: a command is resolved by the first stage that matches its normalised
\* text (a regex match before a literal example, a literal example before the
\* fuzzy fallback), within a stage by the first entry in table order; one
\* intent is executed, and when no stage matches nothing is executed and the
\* result is "unknown".
C13_FirstMatchWins ==
    CommandCall => Pipeline(Matching(CallRaw), Contained(CallRaw), SimsTable[CallRaw])

\* A command was resolved by the first of two matching patterns while its
\* text also contained an example of another intent.
C13_Witness ==
    /\ CommandCall
    /\ call.stage = "regex"
    /\ Cardinality(Matching(CallRaw)) = 2
    /\ Contained(CallRaw) # {}
    /\ Examples[Least(Contained(CallRaw))].intent # call.intent
    /\ call.intent = "type_text"
    /\ call.status = "typed"

\* C14: stage 1 resolves a command only through a pattern that matches the
\* whole normalised text.
C14_RegexMatchesInFull ==
    (CommandCall /\ call.stage = "regex") =>
        \E i \in MatchingInFull(CallRaw) : Patterns[i].intent = call.intent

KeywordCase(P, E) ==
    (P = {} /\ E # {}) =>
        /\ call.stage = "keyword"
        /\ call.intent = Examples[Least(E)].intent
        /\ call.slots = EmptyDict

\* C15: a command that no pattern matches and that contains an example
\* phrase is resolved to the intent of the first such example in table order,
\* with empty slots, without the fuzzy stage.
C15_LiteralExampleWins == CommandCall => KeywordCase(Matching(CallRaw), Contained(CallRaw))

\* A command contained the examples of two intents, neither being all of it.
C15_Witness ==
    /\ CommandCall
    /\ call.stage = "keyword"
    /\ Matching(CallRaw) = {}
    /\ Cardinality({Examples[i].intent : i \in Contained(CallRaw)}) = 2
    /\ call.intent = "open_app"

FuzzyCase(raw, sims) ==
    IF raw # <<>> /\ TopScore(sims) >= ThresholdMilli
    THEN /\ call.stage = "tfidf"
         /\ call.intent = RouterLabels[TopIndex(sims)]
         /\ call.slots = EmptyDict
    ELSE NothingExecuted

\* The threshold test on scores just below, at and just above the threshold.
BoundaryInclusive ==
    \A x \in {ThresholdMilli - 1, ThresholdMilli, ThresholdMilli + 1} :
        (Best(<<0, x>>, 2).label = RouterLabels[2]) <=> (x >= ThresholdMilli)

GestureMessage == call.kind # "none" /\ IsTyped(call.message, s_gesture)

\* What the thresholds say for a gesture of the given kind and roll.
Thresholded(tilt, roll) ==
    IF tilt /\ roll.ok /\ roll.v > RollThreshold THEN
        call.status = "gesture_next_slide" /\ call.acts = <<[op |-> "press", key |-> "right"]>>
    ELSE IF tilt /\ roll.ok /\ roll.v < -RollThreshold THEN
        call.status = "gesture_prev_slide" /\ call.acts = <<[op |-> "press", key |-> "left"]>>
    ELSE call.status = "gesture_ignored" /\ call.acts = <<>>

\* C17: a tilt with roll > 0.25 presses next-slide once and returns
\* gesture_next_slide, with roll < -0.25 presses previous-slide once and
\* returns gesture_prev_slide; every other roll and every other kind makes no
\* actuation and returns gesture_ignored, whatever came before.
C17_GestureThresholds ==
    (GestureMessage /\ call.kind # "hung") =>
        /\ call.kind = "gesture"
        /\ Thresholded(IsStr(Get(call.message.data.d, "kind", JStr(<<>>)), s_tilt),
                       ToFloat(Get(call.message.data.d, "roll", JNum(0))))

\* What a repeat does with the action on record.
Replays ==
    IF LAST_EXECUTED = None THEN call.status = "no_last_action" /\ call.acts = <<>>
    ELSE call.status = origin.status /\ call.acts = origin.acts

\* C18: LAST_EXECUTED is None or a record whose intent is not blocklisted, so
\* no repeat returns "repeat_blocked"; a repeat that follows the execution of
\* a blocklisted intent replays the action recorded before it.
C18_BlocklistedIsNeverOnRecord ==
    /\ LAST_EXECUTED # None => LAST_EXECUTED.intent \notin REPEAT_BLOCKLIST
    /\ \A i \in 1..Len(HISTORY) : HISTORY[i].intent \notin REPEAT_BLOCKLIST
    /\ call.status # "repeat_blocked"
    /\ (RepeatCall /\ call.after = "blocklisted") => Replays

\* A repeat right after send_email replayed the url opened before it.
C18_Witness ==
    /\ RepeatCall
    /\ call.after = "blocklisted"
    /\ LAST_EXECUTED # None
    /\ call.status = "opened_url"
    /\ call.acts # <<>>

\* C20: gestures, also those that actuate, and bad_json, unknown_type and
\* unresolved messages leave LAST_EXECUTED and HISTORY as they were; only an
\* executed command is ever recorded, and a repeat that follows a gesture
\* replays the recorded command (or returns no_last_action).
C20_OnlyCommandsAreRecorded ==
    /\ call.kind \in {"gesture", "bad_json", "unknown_type"} => ~call.changed
    /\ (CommandCall /\ call.status = "unknown") => ~call.changed
    /\ call.changed => (Executed /\ LAST_EXECUTED = CallRecord)
    /\ \A i \in 1..Len(HISTORY) : HISTORY[i].intent \in DOMAIN KEYMAP
    /\ (RepeatCall /\ call.after = "gesture") =>
           (Replays /\ call.status \notin {"gesture_next_slide", "gesture_prev_slide"})

\* A repeat right after a gesture that changed the slide replayed the text
\* typed before the gesture.
C20_Witness ==
    /\ RepeatCall
    /\ call.after = "gesture"
    /\ LAST_EXECUTED # None
    /\ LAST_EXECUTED.intent = "type_text"
    /\ call.status = "typed"
    /\ call.acts # <<>>

\* The execution described by call is one that execute_intent records.
Records == PlainCall /\ call.intent \notin REPEAT_BLOCKLIST /\ call.status # "noop"

\* HISTORY after a record is appended to a deque of at most 10 records.
Evicting(hist, rec) ==
    IF Len(hist) < 10 THEN hist \o <<rec>> ELSE SubSeq(hist, 2, Len(hist)) \o <<rec>>

\* C19: HISTORY holds at most 10 records, is empty exactly when LAST_EXECUTED
\* is None, and ends with LAST_EXECUTED; a recording execution appends its
\* record, evicting the oldest one when there are 10, and nothing else
\* changes HISTORY.
C19_HistoryIsBounded ==
    /\ [](/\ Len(HISTORY) <= 10
          /\ (HISTORY = <<>>) <=> (LAST_EXECUTED = None)
          /\ LAST_EXECUTED # None => HISTORY[Len(HISTORY)] = LAST_EXECUTED)
    /\ [][ HISTORY' = IF received' # received /\ Records'
                      THEN Evicting(HISTORY, CallRecord')
                      ELSE HISTORY ]_vars

\* The twelfth message was recorded into a full HISTORY that holds records of
\* two intents.
C19_Witness ==
    /\ Len(HISTORY) = 10
    /\ received["c1"] = 12
    /\ Records
    /\ HISTORY[1].intent # HISTORY[10].intent
    /\ LAST_EXECUTED = HISTORY[10]

====
